---- MODULE Spec2Model ----
(***************************************************************************)
(* The ICA model of MP1/ica/ica.py: class ICA with its constructor and its *)
(* evaluators loss, grads, hessian_l1, hessian_l2 and hessian.             *)
(*                                                                         *)
(* Numbers.  numpy computes in floating point; the model computes the same *)
(* expressions in exact rational arithmetic.  Every returned quantity is a *)
(* record with an integer numerator (scalar, vector or matrix) `num` over  *)
(* one positive integer denominator `den`.  In the two linear modes every  *)
(* quantity is an integer (or a half integer for loss).  In mode 'full'    *)
(* np.tanh is represented at the integer sample points by the rational    *)
(* tanhNum(x) / TanhDen, and its derivatives are computed from it exactly  *)
(* as the lambdas of __init__ compute them.                                *)
(*                                                                         *)
(* Arrays.  A vector is a sequence, a matrix a sequence of rows, indexed   *)
(* from 1 (numpy index k is index k+1 here).  numpy's shape rules          *)
(* (reshape, matmul, broadcasting, slice assignment) are modelled by       *)
(* their shape conditions; a call that numpy aborts with an exception      *)
(* returns Raised.                                                         *)
(***************************************************************************)
EXTENDS Integers, Sequences, FiniteSets, TLC

-----------------------------------------------------------------------------
(* Bounds and input sets *)

\* largest number T of columns of the observed signal X
MaxT == 2

\* the rows of X are drawn from two signals of T samples: a rising ramp
\* 1, 2, ..., T and a falling ramp 0, -1, ..., 1 - T
XRows(T) == {[t \in 1..T |-> t], [t \in 1..T |-> 1 - t]}

\* entries of S in a vars vector of the right length
SVals == {-1, 0, 2}

\* the 2x2 matrices A, flattened row-major: a singular symmetric one and an
\* invertible one that is not symmetric
AMats == {<<1, 2, 2, 4>>, <<2, 1, -1, 0>>}

\* an A that is not 2x2 (one row, two columns)
BadAMats == {<<<<1, 2>>>>}

\* values of lamb
Lambdas == {0, 3}

\* entries of the constant vectors used as vars of a wrong length
WrongVals == {1, 2}

\* A = None
NoA == <<>>

Modes == {"full", "pca", "known_mix"}

-----------------------------------------------------------------------------
(* Arithmetic helpers *)

RECURSIVE SeqSum(_)
SeqSum(s) == IF s = <<>> THEN 0 ELSE Head(s) + SeqSum(Tail(s))

\* np.sum of a matrix
MatSum(M) == SeqSum([i \in 1..Len(M) |-> SeqSum(M[i])])

\* np.dot of two vectors of equal length
dot(a, b) == SeqSum([k \in 1..Len(a) |-> a[k] * b[k]])

Min(a, b) == IF a < b THEN a ELSE b

\* numpy broadcasting of two extents: allowed, and the resulting extent
BcOK(a, b) == a = b \/ a = 1 \/ b = 1
Bc(a, b) == IF a = 1 THEN b ELSE a

\* index k of a broadcast result, read from an operand of extent n
Bx(k, n) == IF n = 1 THEN 1 ELSE k

\* extent of the slice [a:b] of an axis of extent n (0-based, clipped)
SliceLen(a, b, n) == IF Min(b, n) > Min(a, n) THEN Min(b, n) - Min(a, n) ELSE 0

\* target[...] = value : a value of extent p fits a target of extent t
AssignOK(p, t) == p = t \/ p = 1

\* the outcome of a call that numpy aborts with an exception
Raised == [kind |-> "raise"]

-----------------------------------------------------------------------------
(* The nonlinearity pair and its derivatives, set in __init__ *)

\* denominator of the representation of np.tanh
TanhDen == 25

\* np.tanh(x) * TanhDen, rounded, at integer x
tanhNum(x) ==
    CASE x = 0 -> 0
      [] x = 1 -> 19
      [] x = -1 -> -19
      [] x = 2 -> 24
      [] x = -2 -> -24
      [] x >= 3 -> 25
      [] OTHER -> -25

\* denominator of f; fd has Den^2, fdd has Den^3; g, gd, gdd are integers
Den(self) == IF self.mode = "full" THEN TanhDen ELSE 1

f(self, x) == IF self.mode = "full" THEN tanhNum(x) ELSE x

g(self, x) == IF self.mode = "full" THEN x * x ELSE x

fd(self, x) ==
    IF self.mode = "full" THEN TanhDen * TanhDen - tanhNum(x) * tanhNum(x) ELSE 1

gd(self, x) == IF self.mode = "full" THEN 2 * x ELSE 1

fdd(self, x) ==
    IF self.mode = "full"
    THEN (-2) * tanhNum(x) * (TanhDen * TanhDen - tanhNum(x) * tanhNum(x))
    ELSE 0

gdd(self, x) == IF self.mode = "full" THEN 2 ELSE 0

-----------------------------------------------------------------------------
(* _convert_vars *)

\* X.shape[1]
XCols(self) == (self.var_length - 4) \div 2

\* variant of _convert_vars: in mode 'known_mix' vars is read column-major,
\* vars.reshape(-1, 2).T
_convert_vars_column_major(self, vars) ==
    LET n == Len(vars)
    IN  IF self.mode # "known_mix"
        THEN LET Tp == (n - 4) \div 2
             IN  IF n < 4 \/ (n - 4) % 2 # 0
                 THEN [ok |-> FALSE, A |-> <<>>, S |-> <<>>]
                 ELSE [ok |-> TRUE,
                       A |-> <<<<vars[1], vars[2]>>, <<vars[3], vars[4]>>>>,
                       S |-> <<[t \in 1..Tp |-> vars[4 + t]],
                               [t \in 1..Tp |-> vars[4 + Tp + t]]>>]
        ELSE LET Tp == n \div 2
             IN  IF n % 2 # 0
                 THEN [ok |-> FALSE, A |-> <<>>, S |-> <<>>]
                 ELSE [ok |-> TRUE,
                       A |-> self.A,
                       S |-> <<[t \in 1..Tp |-> vars[2 * t - 1]],
                               [t \in 1..Tp |-> vars[2 * t]]>>]

\* vars -> (A, S); ok is FALSE when a reshape raises
_convert_vars(self, vars) ==
    LET n == Len(vars)
    IN  IF self.mode # "known_mix"
        THEN LET Tp == (n - 4) \div 2
             IN  IF n < 4 \/ (n - 4) % 2 # 0
                 THEN [ok |-> FALSE, A |-> <<>>, S |-> <<>>]
                 ELSE [ok |-> TRUE,
                       A |-> <<<<vars[1], vars[2]>>, <<vars[3], vars[4]>>>>,
                       S |-> <<[t \in 1..Tp |-> vars[4 + t]],
                               [t \in 1..Tp |-> vars[4 + Tp + t]]>>]
        ELSE LET Tp == n \div 2
             IN  IF n % 2 # 0
                 THEN [ok |-> FALSE, A |-> <<>>, S |-> <<>>]
                 ELSE [ok |-> TRUE,
                       A |-> self.A,
                       S |-> <<[t \in 1..Tp |-> vars[t]],
                               [t \in 1..Tp |-> vars[Tp + t]]>>]

-----------------------------------------------------------------------------
(* loss *)

\* A @ S, for A with two columns
matmul_AS(A, S) ==
    [i \in 1..Len(A) |->
        [t \in 1..Len(S[1]) |-> A[i][1] * S[1][t] + A[i][2] * S[2][t]]]

\* self.X - A @ S, broadcast; defined when the extents broadcast
residual(self, A, S) ==
    LET T == XCols(self)
        Tp == Len(S[1])
        AS == matmul_AS(A, S)
    IN  [i \in 1..2 |->
            [t \in 1..Bc(T, Tp) |->
                self.X[i][Bx(t, T)] - AS[Bx(i, Len(A))][Bx(t, Tp)]]]

\* self.f(S) @ self.g(S).T, numerators over Den
correlation_mat(self, S) ==
    [i \in 1..2 |->
        [j \in 1..2 |->
            SeqSum([t \in 1..Len(S[1]) |-> f(self, S[i][t]) * g(self, S[j][t])])]]

\* variant of diag_mat: the diagonal is not taken out of correlation_mat
diag_mat_zero(C) == [i \in 1..2 |-> [j \in 1..2 |-> 0]]

\* np.diag(np.diag(correlation_mat))
diag_mat(C) == [i \in 1..2 |-> [j \in 1..2 |-> IF i = j THEN C[i][i] ELSE 0]]

\* twice the reconstruction loss: np.sum((self.X - A@S)**2)
reconstruction_loss2(self, A, S) ==
    LET R == residual(self, A, S)
    IN  MatSum([i \in 1..2 |-> [t \in 1..Len(R[1]) |-> R[i][t] * R[i][t]]])

\* twice the independence loss, numerator over Den^2
independence_loss2(self, S) ==
    LET C == correlation_mat(self, S)
        Dg == diag_mat(C)
    IN  MatSum([i \in 1..2 |->
            [j \in 1..2 |-> (C[i][j] - Dg[i][j]) * (C[i][j] - Dg[i][j])]])

\* loss(vars) = num / den, den = 2 * Den^2
loss(self, vars) ==
    LET cv == _convert_vars(self, vars)
        D == Den(self)
    IN  IF ~cv.ok THEN Raised
        ELSE IF ~BcOK(XCols(self), Len(cv.S[1])) THEN Raised
        ELSE [kind |-> "value",
              num |-> D * D * reconstruction_loss2(self, cv.A, cv.S)
                        + self.lamb * independence_loss2(self, cv.S),
              den |-> 2 * D * D]

-----------------------------------------------------------------------------
(* grads *)

\* A_grad = -(self.X - A @ S) @ S.T
A_grad(self, A, S) ==
    LET R == residual(self, A, S)
    IN  [i \in 1..2 |->
            [j \in 1..2 |->
                -SeqSum([t \in 1..Len(S[1]) |-> R[i][t] * S[j][t]])]]

\* variant of S_grad_recon: A in place of A.T
S_grad_recon_untransposed(self, A, S) ==
    LET R == residual(self, A, S)
    IN  [k \in 1..2 |->
            [t \in 1..Len(R[1]) |-> -(A[k][1] * R[1][t] + A[k][2] * R[2][t])]]

\* S_grad = -A.T @ (self.X - A @ S)
S_grad_recon(self, A, S) ==
    LET R == residual(self, A, S)
    IN  [k \in 1..2 |->
            [t \in 1..Len(R[1]) |-> -(A[1][k] * R[1][t] + A[2][k] * R[2][t])]]

\* c1 = np.dot(self.f(S[0]), self.g(S[1])), numerator over Den
c1(self, S) ==
    dot([t \in 1..Len(S[1]) |-> f(self, S[1][t])],
        [t \in 1..Len(S[1]) |-> g(self, S[2][t])])

\* c2 = np.dot(self.f(S[1]), self.g(S[0])), numerator over Den
c2(self, S) ==
    dot([t \in 1..Len(S[1]) |-> f(self, S[2][t])],
        [t \in 1..Len(S[1]) |-> g(self, S[1][t])])

\* S_grad after the four in-place additions, numerators over Den^3
S_grad(self, A, S) ==
    LET D == Den(self)
        G == S_grad_recon(self, A, S)
        Tp == Len(S[1])
        k1 == c1(self, S)
        k2 == c2(self, S)
    IN  <<[t \in 1..Len(G[1]) |->
              D * D * D * G[1][t]
              + self.lamb * k1 * g(self, S[2][Bx(t, Tp)]) * fd(self, S[1][Bx(t, Tp)])
              + D * self.lamb * k2
                  * gd(self, S[1][Bx(t, Tp)]) * f(self, S[2][Bx(t, Tp)])],
          [t \in 1..Len(G[2]) |->
              D * D * D * G[2][t]
              + self.lamb * k2 * g(self, S[1][Bx(t, Tp)]) * fd(self, S[2][Bx(t, Tp)])
              + D * self.lamb * k1
                  * gd(self, S[2][Bx(t, Tp)]) * f(self, S[1][Bx(t, Tp)])]>>

\* variant of grads_buffer: `grads` is the caller's vars itself
grads_buffer_caller == "caller"

\* the array `grads` of line 61 is written into: a new one (np.zeros_like),
\* not the caller's vars
grads_buffer == "fresh"

\* grads(vars) = num / den, den = Den^3; `vars` is the caller's vector after
\* the call
grads(self, vars) ==
    LET cv == _convert_vars(self, vars)
        D == Den(self)
        n == Len(vars)
        T == XCols(self)
        Tp == Len(cv.S[1])
        Ag == A_grad(self, cv.A, cv.S)
        Sg == S_grad(self, cv.A, cv.S)
        flatS == Sg[1] \o Sg[2]
        heap == [caller |-> vars, fresh |-> [k \in 1..n |-> 0]]
        written == <<D * D * D * Ag[1][1], D * D * D * Ag[1][2],
                     D * D * D * Ag[2][1], D * D * D * Ag[2][2]>> \o flatS
        after == [heap EXCEPT ![grads_buffer] = written]
    IN  IF ~cv.ok THEN Raised
        \* line 53: the subtraction broadcasts, then (2 x Tb) @ (Tp x 2)
        ELSE IF ~BcOK(T, Tp) \/ Bc(T, Tp) # Tp THEN Raised
        \* line 54: (2 x rows of A) @ (2 x Tb)
        ELSE IF Len(cv.A) # 2 THEN Raised
        \* lines 57-60: in-place addition of a length-Tp vector to a row of S_grad
        ELSE IF ~AssignOK(Tp, Bc(T, Tp)) THEN Raised
        ELSE IF self.mode # "known_mix"
             THEN IF ~AssignOK(Len(flatS), n - 4) THEN Raised
                  ELSE [kind |-> "value", num |-> after[grads_buffer],
                        den |-> D * D * D, vars |-> after.caller]
             ELSE [kind |-> "value", num |-> flatS, den |-> D * D * D,
                   vars |-> vars]

-----------------------------------------------------------------------------
(* hessian_l1 *)

\* position of the 1-based index i > 4 of hessian_mat in the S part, for S
\* with Tp columns: block 1 is [4:4+T], block 2 is [4+T:]; off is the
\* 1-based offset in the block
SBlock(i, Tp) == IF i <= 4 + Tp THEN 1 ELSE 2
SOff(i, Tp) == IF i <= 4 + Tp THEN i - 4 ELSE i - 4 - Tp

\* element t of the target of an assignment whose value is the vector v
at(v, t) == v[Bx(t, Len(v))]

\* s_squared = S @ S.T
s_squared(S) ==
    [k \in 1..2 |-> [l \in 1..2 |->
        SeqSum([t \in 1..Len(S[1]) |-> S[k][t] * S[l][t]])]]

\* variant of a_squared: A @ A.T
a_squared_outer(A) ==
    [k \in 1..2 |-> [l \in 1..2 |->
        SeqSum([i \in 1..Len(A) |-> A[k][i] * A[l][i]])]]

\* a_squared = A.T @ A
a_squared(A) ==
    [k \in 1..2 |-> [l \in 1..2 |->
        SeqSum([i \in 1..Len(A) |-> A[i][k] * A[i][l]])]]

\* the top-left 4x4 block, lines 76-77, from ss = s_squared
top_left(ss, i, j) ==
    IF (i <= 2) = (j <= 2) THEN ss[((i - 1) % 2) + 1][((j - 1) % 2) + 1] ELSE 0

\* the bottom-right block, lines 81-85: a_squared[bi, bj] * np.eye(T), from
\* aa = a_squared, for S with Tp columns
bottom_right(aa, Tp, i, j) ==
    IF Bx(SOff(i, Tp), Tp) = Bx(SOff(j, Tp), Tp)
    THEN aa[SBlock(i, Tp)][SBlock(j, Tp)]
    ELSE 0

\* -self.X[r] + ca*S[0] + cb*S[1], broadcast (lines 88, 89, 93, 94)
x_row(self, S, r, ca, cb) ==
    LET T == XCols(self)
        Tp == Len(S[1])
    IN  [u \in 1..Bc(T, Tp) |->
            -self.X[r][Bx(u, T)] + ca * S[1][Bx(u, Tp)] + cb * S[2][Bx(u, Tp)]]

\* c * S[k] (lines 90, 91, 95, 96)
s_row(S, k, c) == [u \in 1..Len(S[1]) |-> c * S[k][u]]

\* the values assigned to hessian_mat[r, 4:4+T] (block 1) and
\* hessian_mat[r, 4+T:] (block 2), lines 88-96: other_terms[r + 1][block]
other_terms(self, A, S) ==
    <<<<x_row(self, S, 1, 2 * A[1][1], A[1][2]), s_row(S, 1, A[1][2])>>,
      <<s_row(S, 2, A[1][1]), x_row(self, S, 1, A[1][1], 2 * A[1][2])>>,
      <<x_row(self, S, 2, 2 * A[2][1], A[2][2]), s_row(S, 1, A[2][2])>>,
      <<s_row(S, 2, A[2][1]), x_row(self, S, 2, A[2][1], 2 * A[2][2])>>>>

\* entry [i][j], i <= 4 < j, of hessian_mat after lines 88-96, from
\* ot = other_terms
top_right(ot, Tp, i, j) == at(ot[i][SBlock(j, Tp)], SOff(j, Tp))

\* variant of bottom_left: line 98 left out, the block stays zero
bottom_left_zero(ot, Tp, i, j) == 0

\* line 98: hessian_mat[4:, :4] = hessian_mat[:4, 4:].T, at row i > 4, column j <= 4
bottom_left(ot, Tp, i, j) == top_right(ot, Tp, j, i)

\* the assignments of hessian_l1 all fit their targets
hessian_l1_fits(self, A, S) ==
    LET V == self.var_length
        T == XCols(self)
        Tp == Len(S[1])
        r0 == SliceLen(4, 4 + Tp, V)
        r1 == SliceLen(4 + Tp, V, V)
    IN  \* lines 82-85
        /\ AssignOK(Tp, r0)
        /\ AssignOK(Tp, r1)
        \* lines 88, 89, 93, 94: the value broadcasts X[r] against S[k]
        /\ BcOK(T, Tp)
        /\ AssignOK(Bc(T, Tp), r0)
        /\ AssignOK(Bc(T, Tp), r1)
        \* A[1,0], A[1,1]
        /\ Len(A) = 2

\* hessian_l1(vars) = num, an integer matrix of side var_length (den = 1)
hessian_l1(self, vars) ==
    LET cv == _convert_vars(self, vars)
        V == self.var_length
        Tp == Len(cv.S[1])
        ss == s_squared(cv.S)
        aa == a_squared(cv.A)
        ot == other_terms(self, cv.A, cv.S)
    IN  IF ~cv.ok THEN Raised
        ELSE IF ~hessian_l1_fits(self, cv.A, cv.S) THEN Raised
        ELSE [kind |-> "value",
              num |-> [i \in 1..V |-> [j \in 1..V |->
                         IF i <= 4 /\ j <= 4 THEN top_left(ss, i, j)
                         ELSE IF i <= 4 THEN top_right(ot, Tp, i, j)
                         ELSE IF j <= 4 THEN bottom_left(ot, Tp, i, j)
                         ELSE bottom_right(aa, Tp, i, j)]],
              den |-> 1]

-----------------------------------------------------------------------------
(* hessian_l2 *)

\* f, fd, fdd, g, gd, gdd applied elementwise to S
_precompute_derivatives(self, S) ==
    [f |-> [k \in 1..2 |-> [t \in 1..Len(S[1]) |-> f(self, S[k][t])]],
     fd |-> [k \in 1..2 |-> [t \in 1..Len(S[1]) |-> fd(self, S[k][t])]],
     fdd |-> [k \in 1..2 |-> [t \in 1..Len(S[1]) |-> fdd(self, S[k][t])]],
     g |-> [k \in 1..2 |-> [t \in 1..Len(S[1]) |-> g(self, S[k][t])]],
     gd |-> [k \in 1..2 |-> [t \in 1..Len(S[1]) |-> gd(self, S[k][t])]],
     gdd |-> [k \in 1..2 |-> [t \in 1..Len(S[1]) |-> gdd(self, S[k][t])]]]

\* sfg01 = np.dot(self.f(S[0]), self.g(S[1])), numerator over Den
sfg01(self, S) == c1(self, S)

\* sfg10 = np.dot(self.f(S[1]), self.g(S[0])), numerator over Den
sfg10(self, S) == c2(self, S)

\* entry [a][b] of _s1s1_hessian, numerator over Den^4 (D is Den)
_s1s1_hessian(D, pd, s01, s10, a, b) ==
    pd.fd[1][a] * pd.fd[1][b] * pd.g[2][a] * pd.g[2][b]
    + D * D * pd.gd[1][a] * pd.gd[1][b] * pd.f[2][a] * pd.f[2][b]
    + (IF a = b THEN s01 * pd.fdd[1][a] * pd.g[2][a] ELSE 0)
    + (IF a = b THEN D * D * s10 * pd.gdd[1][a] * pd.f[2][a] ELSE 0)

\* entry [a][b] of _s2s2_hessian, numerator over Den^4
_s2s2_hessian(D, pd, s01, s10, a, b) ==
    pd.fd[2][a] * pd.fd[2][b] * pd.g[1][a] * pd.g[1][b]
    + D * D * pd.gd[2][a] * pd.gd[2][b] * pd.f[1][a] * pd.f[1][b]
    + (IF a = b THEN s10 * pd.fdd[2][a] * pd.g[1][a] ELSE 0)
    + (IF a = b THEN D * D * s01 * pd.gdd[2][a] * pd.f[1][a] ELSE 0)

\* entry [a][b] of _s1s2_hessian, numerator over Den^4
_s1s2_hessian(D, pd, s01, s10, a, b) ==
    D * pd.f[1][a] * pd.fd[1][b] * pd.gd[2][a] * pd.g[2][b]
    + D * pd.fd[2][a] * pd.f[2][b] * pd.g[1][a] * pd.gd[1][b]
    + (IF a = b THEN D * s01 * pd.fd[1][a] * pd.gd[2][a] ELSE 0)
    + (IF a = b THEN D * s10 * pd.gd[1][a] * pd.fd[2][a] ELSE 0)

\* variant of s1s2_block: the block is _s1s2_hessian(...) itself
s1s2_block_untransposed(D, pd, s01, s10, a, b) ==
    _s1s2_hessian(D, pd, s01, s10, a, b)

\* lines 112-113: the block hessian_mat[4:4+T, 4+T:] is _s1s2_hessian(...).T;
\* its entry [a][b]
s1s2_block(D, pd, s01, s10, a, b) == _s1s2_hessian(D, pd, s01, s10, b, a)

\* the assignments of hessian_l2 all fit their targets (lines 108-114)
hessian_l2_fits(self, S) ==
    LET V == self.var_length
        Tp == Len(S[1])
    IN  /\ AssignOK(Tp, SliceLen(4, 4 + Tp, V))
        /\ AssignOK(Tp, SliceLen(4 + Tp, V, V))

\* hessian_l2(vars) = num / den, den = Den^4, a matrix of side var_length
hessian_l2(self, vars) ==
    LET cv == _convert_vars(self, vars)
        V == self.var_length
        D == Den(self)
        S == cv.S
        Tp == Len(S[1])
        pd == _precompute_derivatives(self, S)
        s01 == sfg01(self, S)
        s10 == sfg10(self, S)
        a(i) == Bx(SOff(i, Tp), Tp)
    IN  IF ~cv.ok THEN Raised
        ELSE IF ~hessian_l2_fits(self, S) THEN Raised
        ELSE [kind |-> "value",
              num |-> [i \in 1..V |-> [j \in 1..V |->
                         IF i <= 4 \/ j <= 4 THEN 0
                         ELSE IF SBlock(i, Tp) = 1 /\ SBlock(j, Tp) = 1
                              THEN _s1s1_hessian(D, pd, s01, s10, a(i), a(j))
                         ELSE IF SBlock(i, Tp) = 2 /\ SBlock(j, Tp) = 2
                              THEN _s2s2_hessian(D, pd, s01, s10, a(i), a(j))
                         ELSE IF SBlock(i, Tp) = 1
                              THEN s1s2_block(D, pd, s01, s10, a(i), a(j))
                         \* line 114: the transpose of the block above
                         ELSE s1s2_block(D, pd, s01, s10, a(j), a(i))]],
              den |-> D * D * D * D]

-----------------------------------------------------------------------------
(* hessian *)

\* variant of hessian_slice_from: hess is returned whole in every mode
hessian_slice_none(self) == 0

\* first row and column kept of hess: hess[4:, 4:] in mode 'known_mix'
hessian_slice_from(self) == IF self.mode = "known_mix" THEN 4 ELSE 0

\* hessian(vars) = num / den, den = Den^4
hessian(self, vars) ==
    LET l1 == hessian_l1(self, vars)
        l2 == hessian_l2(self, vars)
        V == self.var_length
        D == Den(self)
        k == hessian_slice_from(self)
    IN  IF l1.kind = "raise" THEN Raised
        ELSE IF l2.kind = "raise" THEN Raised
        ELSE [kind |-> "value",
              num |-> [i \in 1..(V - k) |-> [j \in 1..(V - k) |->
                         D * D * D * D * l1.num[i + k][j + k]
                         + self.lamb * l2.num[i + k][j + k]]],
              den |-> D * D * D * D]

-----------------------------------------------------------------------------
(* The object and its caller *)

VARIABLES
    phase,       \* "new": not constructed; "ready": constructed; "failed": __init__ raised
    X,           \* self.X
    lamb,        \* self.lamb
    mode,        \* self.mode
    var_length,  \* self.var_length
    A,           \* self.A (NoA when the attribute is not set)
    call,        \* the method the caller is in, "none" between calls
    arg,         \* the vector the caller passed to that method
    vars,        \* the caller's vector after the call
    result       \* what the call returned, or Raised

vars_all == <<phase, X, lamb, mode, var_length, A, call, arg, vars, result>>

fields == <<X, lamb, mode, var_length, A>>

self == [X |-> X, lamb |-> lamb, mode |-> mode, var_length |-> var_length, A |-> A]

NoResult == [kind |-> "none"]

\* the observed signals: 2 x T, T in 1..MaxT, two different rows
XMats ==
    UNION {{<<rr[1], rr[2]>> : rr \in {qq \in XRows(T) \X XRows(T) : qq[1] # qq[2]}} :
              T \in 1..MaxT}

Mat2x2(a) == <<<<a[1], a[2]>>, <<a[3], a[4]>>>>

\* the A arguments of the constructor
AArgs == {NoA} \cup {Mat2x2(a) : a \in AMats} \cup BadAMats

\* the length of vars the mode asks for
VarsLen == IF mode = "known_mix" THEN var_length - 4 ELSE var_length

\* vectors of the right length
RightVars ==
    LET Ss == [1..(var_length - 4) -> SVals]
    IN  IF mode = "known_mix" THEN Ss ELSE {a \o s : a \in AMats, s \in Ss}

\* constant vectors of every other length up to two more than the longest
WrongVars ==
    {[k \in 1..n |-> w] : n \in (0..(2 * MaxT + 6)) \ {VarsLen}, w \in WrongVals}

VarsArgs == RightVars \cup WrongVars

Init ==
    /\ phase = "new"
    /\ X = <<>>
    /\ lamb = 0
    /\ mode = "none"
    /\ var_length = 0
    /\ A = NoA
    /\ call = "none"
    /\ arg = <<>>
    /\ vars = <<>>
    /\ result = NoResult

\* ICA(X, A, lamb, ica_mode)
Construct(Xin, Ain, lam, m) ==
    /\ phase = "new"
    /\ IF m = "known_mix" /\ Ain = NoA
       THEN \* assert A is not None
            /\ phase' = "failed"
            /\ UNCHANGED fields
       ELSE /\ phase' = "ready"
            /\ X' = Xin
            /\ lamb' = lam
            /\ mode' = m
            /\ var_length' = 2 * Len(Xin[1]) + 4
            /\ A' = IF m = "known_mix" THEN Ain ELSE NoA
    /\ UNCHANGED <<call, arg, vars, result>>

\* the caller is between calls on a constructed object
CanCall == phase = "ready" /\ call = "none"

\* a call of a method that writes to no array it did not create
Call(name, v, r) ==
    /\ CanCall
    /\ call' = name
    /\ arg' = v
    /\ vars' = v
    /\ result' = r
    /\ UNCHANGED <<phase, fields>>

Loss(v) == Call("loss", v, loss(self, v))

Grads(v) ==
    LET r == grads(self, v)
    IN  /\ CanCall
        /\ call' = "grads"
        /\ arg' = v
        /\ vars' = IF r.kind = "value" THEN r.vars ELSE v
        /\ result' = IF r.kind = "value"
                     THEN [kind |-> "value", num |-> r.num, den |-> r.den]
                     ELSE r
        /\ UNCHANGED <<phase, fields>>

HessianL1(v) == Call("hessian_l1", v, hessian_l1(self, v))

HessianL2(v) == Call("hessian_l2", v, hessian_l2(self, v))

Hessian(v) == Call("hessian", v, hessian(self, v))

\* the caller takes the result; the object holds nothing of the call
Return ==
    /\ call # "none"
    /\ call' = "none"
    /\ arg' = <<>>
    /\ vars' = <<>>
    /\ result' = NoResult
    /\ UNCHANGED <<phase, fields>>

Next ==
    \/ \E Xin \in XMats, Ain \in AArgs, lam \in Lambdas, m \in Modes :
           Construct(Xin, Ain, lam, m)
    \/ CanCall /\ \E v \in VarsArgs : Loss(v)
    \/ CanCall /\ \E v \in VarsArgs : Grads(v)
    \/ CanCall /\ \E v \in VarsArgs : HessianL1(v)
    \/ CanCall /\ \E v \in VarsArgs : HessianL2(v)
    \/ CanCall /\ \E v \in VarsArgs : Hessian(v)
    \/ Return

Spec == Init /\ [][Next]_vars_all

-----------------------------------------------------------------------------
(* Vocabulary of the properties *)

\* the object is constructed and, in mode 'known_mix', its A is 2x2
WellFormed ==
    /\ phase = "ready"
    /\ mode = "known_mix" => (Len(A) = 2 /\ Len(A[1]) = 2 /\ Len(A[2]) = 2)

\* the caller is in method m, called on a well-formed object with a vector
\* of the length the mode asks for
ValidCall(m) == call = m /\ WellFormed /\ Len(arg) = VarsLen

Returned == result.kind = "value"

LinearMode == mode \in {"pca", "known_mix"}

\* v + d * e_i
Step(v, i, d) == [v EXCEPT ![i] = @ + d]

\* A and S of the current call, by the flat layout of vars
ArgA == _convert_vars(self, arg).A
ArgS == _convert_vars(self, arg).S

\* number of columns of S in the current call
ArgT == Len(ArgS[1])

-----------------------------------------------------------------------------
(* C1: gradient against the central difference of loss *)

\* C1: in the two linear modes, for vars of the right length, grads returns a
\* vector g with loss(vars + e_i) - loss(vars - e_i) = 2 * g[i] for every
\* coordinate i (as rationals num/den).
C1_GradientIsCentralDifference ==
    (ValidCall("grads") /\ LinearMode) =>
        /\ Returned
        /\ \A i \in 1..Len(arg) :
              LET Lp == loss(self, Step(arg, i, 1))
                  Lm == loss(self, Step(arg, i, -1))
              IN  (Lp.num - Lm.num) * result.den = 2 * result.num[i] * Lp.den

\* a gradient with nonzero S components, with the independence term active
C1_Witness ==
    /\ ValidCall("grads") /\ mode = "pca" /\ Returned
    /\ lamb > 0 /\ ArgT = 2
    /\ c1(self, ArgS) # 0
    /\ \A i \in 1..Len(arg) : result.num[i] # 0

-----------------------------------------------------------------------------
(* C2: Hessian against the central difference of the gradient *)

\* C2: in the two linear modes, for vars of the right length, hessian returns
\* a matrix H with grads(vars + e_j)[i] - grads(vars - e_j)[i] = 2 * H[i][j]
\* for all i, j.
C2_HessianIsCentralDifference ==
    (ValidCall("hessian") /\ LinearMode) =>
        /\ Returned
        /\ \A j \in 1..Len(arg) :
              LET Gp == grads(self, Step(arg, j, 1))
                  Gm == grads(self, Step(arg, j, -1))
              IN  \A i \in 1..Len(arg) :
                      (Gp.num[i] - Gm.num[i]) * result.den
                          = 2 * result.num[i][j] * Gp.den

\* a free-A Hessian whose A-versus-S and S0-versus-S1 entries are nonzero
C2_Witness ==
    /\ ValidCall("hessian") /\ mode = "pca" /\ Returned
    /\ lamb > 0 /\ ArgT = 2
    /\ result.num[1][5] # 0 /\ result.num[2][7] # 0
    /\ result.num[5][8] # 0 /\ result.num[5][7] # 0

-----------------------------------------------------------------------------
(* C3: symmetry *)

\* C3: in every mode, for vars of the right length, the matrices returned by
\* hessian, hessian_l1 and hessian_l2 are symmetric.
C3_HessianSymmetric ==
    \A m \in {"hessian", "hessian_l1", "hessian_l2"} :
        ValidCall(m) =>
            /\ Returned
            /\ \A i \in 1..Len(result.num) : \A j \in 1..Len(result.num) :
                  result.num[i][j] = result.num[j][i]

\* a nonlinear-mode Hessian with nonzero A-versus-S and S0-versus-S1 entries
\* that differ from entry to entry
C3_Witness ==
    /\ ValidCall("hessian") /\ mode = "full" /\ Returned
    /\ lamb > 0 /\ ArgT = 2
    /\ result.num[1][5] # 0 /\ result.num[5][8] # 0
    /\ result.num[5][8] # result.num[6][7]
    /\ result.num[1][5] # result.num[1][6]

-----------------------------------------------------------------------------
(* C5: shapes *)

\* C5: for vars of the right length, grads returns len(vars) components and
\* hessian a square matrix of side len(vars): 4 + 2T when A is free, 2T in mode
\* 'known_mix', where it is the bottom-right 2T x 2T block of
\* hessian_l1 + lamb * hessian_l2 computed at side 4 + 2T.
C5_Shapes ==
    /\ ValidCall("grads") => (Returned /\ Len(result.num) = Len(arg))
    /\ ValidCall("hessian") =>
          /\ Returned
          /\ Len(result.num) = Len(arg)
          /\ \A i \in 1..Len(result.num) : Len(result.num[i]) = Len(arg)
          /\ Len(arg) = IF mode = "known_mix" THEN 2 * Len(X[1])
                        ELSE 4 + 2 * Len(X[1])
          /\ mode = "known_mix" =>
                LET l1 == hessian_l1(self, arg)
                    l2 == hessian_l2(self, arg)
                IN  /\ Len(l1.num) = 4 + 2 * Len(X[1])
                    /\ Len(l2.num) = 4 + 2 * Len(X[1])
                    /\ \A i \in 1..Len(arg) : \A j \in 1..Len(arg) :
                          result.num[i][j] * l2.den
                              = result.den * (l1.num[i + 4][j + 4] * l2.den
                                              + lamb * l2.num[i + 4][j + 4])

\* a fixed-A Hessian with T = 2 and nonzero entries
C5_Witness ==
    /\ ValidCall("hessian") /\ mode = "known_mix" /\ Returned
    /\ Len(X[1]) = 2 /\ Len(result.num) = 4
    /\ lamb > 0 /\ result.num[1][4] # 0 /\ result.num[1][1] # result.num[4][4]

-----------------------------------------------------------------------------
(* C6: the fixed-A model against the linear free-A model *)

\* the linear free-A model with the same X and lamb
FreeSelf == [self EXCEPT !.mode = "pca", !.A = NoA]

\* concat(flatten(A), vars)
FreeArg == <<A[1][1], A[1][2], A[2][1], A[2][2]>> \o arg

\* C6: a fixed-A model with a 2x2 matrix A at vars = flatten(S) and the linear
\* free-A model with the same X and lamb at concat(flatten(A), flatten(S))
\* agree: equal loss, the fixed-A gradient is the last 2T components of the
\* free-A gradient, the fixed-A Hessian the bottom-right 2T x 2T block of the
\* free-A Hessian.
C6_ModesAgree ==
    /\ (ValidCall("loss") /\ mode = "known_mix") =>
          (Returned /\ result = loss(FreeSelf, FreeArg))
    /\ (ValidCall("grads") /\ mode = "known_mix") =>
          LET G == grads(FreeSelf, FreeArg)
          IN  /\ Returned /\ G.kind = "value" /\ G.den = result.den
              /\ Len(result.num) = Len(arg)
              /\ \A i \in 1..Len(arg) : result.num[i] = G.num[i + 4]
    /\ (ValidCall("hessian") /\ mode = "known_mix") =>
          LET H == hessian(FreeSelf, FreeArg)
          IN  /\ Returned /\ H.kind = "value" /\ H.den = result.den
              /\ Len(result.num) = Len(arg)
              /\ \A i \in 1..Len(arg) : \A j \in 1..Len(arg) :
                    result.num[i][j] = H.num[i + 4][j + 4]

\* a fixed-A gradient with T = 2, a non-symmetric A and distinct components
C6_Witness ==
    /\ ValidCall("grads") /\ mode = "known_mix" /\ Returned
    /\ Len(X[1]) = 2 /\ lamb > 0
    /\ A[1][2] # A[2][1]
    /\ result.num[2] # result.num[3] /\ result.num[2] # 0 /\ result.num[3] # 0

-----------------------------------------------------------------------------
(* C7: the calls change neither the object nor the caller's vector *)

\* C7: every step taken on a constructed object leaves X, lamb, mode,
\* var_length and the stored A as they are, and after every call the caller's
\* vector is the vector that was passed.
C7_CallsChangeNothing ==
    [][phase = "ready" =>
          /\ phase' = "ready"
          /\ fields' = fields
          /\ call' # "none" => vars' = arg']_vars_all

\* a free-A gradient was returned that differs from the vector passed, which
\* the caller still holds
C7_Witness ==
    /\ ValidCall("grads") /\ mode = "pca" /\ Returned
    /\ result.num # arg /\ vars = arg

-----------------------------------------------------------------------------
(* C9: loss is non-negative and reduces to the reconstruction term *)

\* twice the reconstruction term: the sum of the squared entries of X - A*S
SquaredResiduals ==
    LET S == ArgS
        M == ArgA
        E == [i \in 1..2 |-> [t \in 1..Len(S[1]) |->
                 X[i][t] - (M[i][1] * S[1][t] + M[i][2] * S[2][t])]]
    IN  SeqSum([i \in 1..2 |-> SeqSum([t \in 1..Len(S[1]) |-> E[i][t] * E[i][t]])])

ZeroRow(r) == \A t \in 1..Len(r) : r[t] = 0

\* C9: for lamb >= 0 and vars of the right length loss(vars) >= 0; with
\* lamb = 0, and also when a row of S is all zeros, loss(vars) is exactly half
\* the sum of the squared entries of X - A*S.
C9_LossNonNegative ==
    ValidCall("loss") =>
        /\ Returned
        /\ result.num >= 0 /\ result.den > 0
        /\ (lamb = 0 \/ ZeroRow(ArgS[1]) \/ ZeroRow(ArgS[2])) =>
              2 * result.num = result.den * SquaredResiduals

\* a loss with lamb > 0, a zero row of S beside a nonzero one, and a nonzero
\* reconstruction term, in the nonlinear mode
C9_Witness ==
    /\ ValidCall("loss") /\ mode = "full" /\ Returned
    /\ lamb > 0 /\ ArgT = 2
    /\ ZeroRow(ArgS[1]) /\ \A t \in 1..2 : ArgS[2][t] # 0
    /\ result.num > 0

-----------------------------------------------------------------------------
(* C10: the (S0,S1) sub-block of hessian_l2 *)

\* the matrix of section 4.5 for S: entry [t][u] of
\* outer(f(S0),f'(S0)) * outer(g'(S1),g(S1)) + outer(f'(S1),f(S1)) * outer(g(S0),g'(S0))
\* + diag(sfg01*f'(S0)*g'(S1)) + diag(sfg10*g'(S0)*f'(S1)), numerator over Den^3
CrossMatrix(S, t, u) ==
    f(self, S[1][t]) * fd(self, S[1][u]) * gd(self, S[2][t]) * g(self, S[2][u])
    + fd(self, S[2][t]) * f(self, S[2][u]) * g(self, S[1][t]) * gd(self, S[1][u])
    + (IF t = u
       THEN sfg01(self, S) * fd(self, S[1][t]) * gd(self, S[2][t])
            + sfg10(self, S) * gd(self, S[1][t]) * fd(self, S[2][t])
       ELSE 0)

\* C10, as stated: entry [t][u] of the (S0,S1) sub-block of hessian_l2 is
\* entry [t][u] of that matrix, and (S1,S0) is the transpose of (S0,S1).
C10_AsStated ==
    ValidCall("hessian_l2") =>
        LET S == ArgS
            T == Len(S[1])
        IN  /\ Returned
            /\ \A t \in 1..T : \A u \in 1..T :
                  /\ result.num[4 + t][4 + T + u] = Den(self) * CrossMatrix(S, t, u)
                  /\ result.num[4 + T + u][4 + t] = result.num[4 + t][4 + T + u]

\* C10, amended: entry [t][u] of the (S0,S1) sub-block of hessian_l2 is entry
\* [u][t] of that matrix (the sub-block is its transpose), and (S1,S0) is the
\* transpose of (S0,S1); in the linear modes the entry is
\* 2*S[0][u]*S[1][t], plus 2*(S[0].S[1]) when t = u.
C10_CrossBlockIsTransposed ==
    ValidCall("hessian_l2") =>
        LET S == ArgS
            T == Len(S[1])
        IN  /\ Returned
            /\ \A t \in 1..T : \A u \in 1..T :
                  /\ result.num[4 + t][4 + T + u] = Den(self) * CrossMatrix(S, u, t)
                  /\ result.num[4 + T + u][4 + t] = result.num[4 + t][4 + T + u]
                  /\ LinearMode =>
                        result.num[4 + t][4 + T + u]
                            = 2 * S[1][u] * S[2][t]
                              + (IF t = u THEN 2 * dot(S[1], S[2]) ELSE 0)

\* a hessian_l2 with T = 2 whose cross matrix is not symmetric
C10_Witness ==
    /\ ValidCall("hessian_l2") /\ Returned /\ ArgT = 2
    /\ CrossMatrix(ArgS, 1, 2) # CrossMatrix(ArgS, 2, 1)
    /\ result.num[5][8] # result.num[6][7]

-----------------------------------------------------------------------------
(* C4: vars of a wrong length *)

\* C4: loss, grads and hessian called with a vector whose length is not the
\* one the mode asks for fail; none of them returns a value.
C4_WrongLengthRaises ==
    (/\ phase = "ready"
     /\ call \in {"loss", "grads", "hessian"}
     /\ Len(arg) # VarsLen) => result.kind = "raise"

-----------------------------------------------------------------------------
(* C8: the constructor's check of A *)

\* C8: a constructed object in mode 'known_mix' has an A, and it is 2x2
\* (the constructor fails when A is absent and rejects an A that is not 2x2).
C8_FixedAIs2x2 ==
    (phase = "ready" /\ mode = "known_mix") =>
        (A # NoA /\ Len(A) = 2 /\ Len(A[1]) = 2 /\ Len(A[2]) = 2)

====
